---- MODULE Spec2Model ----
(***************************************************************************)
(* RecipeRadar: the ingredient-detection / recipe-generation pipeline      *)
(* (ai.server functions and the FridgeImageInput component) and the        *)
(* referential actions of the Prisma schema around Recipe and Scan.        *)
(*                                                                         *)
(* Texts are sequences of lexemes.  The backtick, the newline, the space,  *)
(* the double quote and the JSON punctuation marks are lexemes of their    *)
(* own; every other lexeme is a run of characters containing none of them. *)
(* SANY accepts no backtick inside a string literal, so the backtick is    *)
(* written "<bt>".                                                         *)
(***************************************************************************)
EXTENDS Integers, Sequences, FiniteSets, TLC

VARIABLES
    \* ---- generateRecipes applied to one completion (SpecGen) ----
    payload,      \* the JSON text the service meant to send
    wrap,         \* how the service wrapped it (fence, padding, ...)
    completion,   \* what openai.chat.completions.create resolved or rejected with
    jsonString,   \* local of generateRecipes after the replace/trim
    genOutcome,   \* what generateRecipes returned or threw
    genPc,        \* "start" | "done"
    \* ---- FridgeImageInput and the two resource routes (Spec) ----
    imageData,    \* useState<string | null>
    navState,     \* navigation.state of useNavigation()
    submitError,  \* useState<string | null>
    run,          \* one record per handleSubmit invocation
    \* ---- the database (SpecDB) ----
    users, scans, scanImages, recipes, recipeIngredients, recipeImages,
    lastOp        \* the last database operation

genVars == <<payload, wrap, completion, jsonString, genOutcome, genPc>>
uiVars  == <<imageData, navState, submitError, run>>
dbVars  == <<users, scans, scanImages, recipes, recipeIngredients, recipeImages,
             lastOp>>
vars    == <<genVars, uiVars, dbVars>>

(***************************************************************************)
(* Lexemes                                                                 *)
(***************************************************************************)
BT == "<bt>"
LF == "\n"
SP == " "
QT == "\""
WS == {SP, LF}

Fence3 == <<BT, BT, BT>>

(***************************************************************************)
(* JSON values, as JSON.parse builds them.  An object is the sequence of   *)
(* its members in document order; a later member of the same key wins.     *)
(***************************************************************************)
JNull     == [t |-> "null", s |-> "", n |-> 0, a |-> <<>>]
JBool(b)  == [t |-> "bool", s |-> b, n |-> 0, a |-> <<>>]
JNum(x)   == [t |-> "num", s |-> "", n |-> x, a |-> <<>>]
JStr(x)   == [t |-> "str", s |-> x, n |-> 0, a |-> <<>>]
JArr(xs)  == [t |-> "arr", s |-> "", n |-> 0, a |-> xs]
JObj(ms)  == [t |-> "obj", s |-> "", n |-> 0, a |-> ms]
Member(k, v) == [k |-> k, v |-> v]

\* 'key' in obj
HasKey(obj, key) == obj.t = "obj" /\ \E i \in 1..Len(obj.a) : obj.a[i].k = key

\* obj[key], for a key the object has
Get(obj, key) ==
    LET is == {i \in 1..Len(obj.a) : obj.a[i].k = key}
        last == CHOOSE i \in is : \A j \in is : j <= i
    IN  obj.a[last].v

\* obj[key] as JavaScript reads it: undefined (kept as null) when absent
Prop(obj, key) == IF HasKey(obj, key) THEN Get(obj, key) ELSE JNull

\* The numbers the bounded texts can spell.
NumVal == ("0" :> 0) @@ ("1" :> 1) @@ ("15" :> 15) @@ ("-1" :> (-1))

(***************************************************************************)
(* content.replace(/```json\n?|\n?```/g, '').trim()                        *)
(***************************************************************************)
At(s, i) == IF i >= 1 /\ i <= Len(s) THEN s[i] ELSE ""

IsFenceAt(s, i) == At(s, i) = BT /\ At(s, i + 1) = BT /\ At(s, i + 2) = BT

\* Length of the regex match starting exactly at i (0: none).  The first
\* alternative is tried first; each optional newline is greedy.
MatchLen(s, i) ==
    IF IsFenceAt(s, i) /\ At(s, i + 3) = "json"
    THEN (IF At(s, i + 4) = LF THEN 5 ELSE 4)
    ELSE IF At(s, i) = LF /\ IsFenceAt(s, i + 1) THEN 4
    ELSE IF IsFenceAt(s, i) THEN 3
    ELSE 0

\* Global replace: the leftmost match at or after i is removed, and the scan
\* goes on behind it.
RECURSIVE ReplaceFrom(_, _)
ReplaceFrom(s, i) ==
    LET hits == {j \in i..Len(s) : MatchLen(s, j) > 0}
    IN  IF hits = {} THEN SubSeq(s, i, Len(s))
        ELSE LET j == CHOOSE h \in hits : \A k \in hits : h <= k
             IN  SubSeq(s, i, j - 1) \o ReplaceFrom(s, j + MatchLen(s, j))

ReplaceFences(s) == ReplaceFrom(s, 1)

Trim(s) ==
    LET keep == {i \in 1..Len(s) : s[i] \notin WS}
    IN  IF keep = {} THEN <<>>
        ELSE LET lo == CHOOSE i \in keep : \A j \in keep : i <= j
                 hi == CHOOSE i \in keep : \A j \in keep : j <= i
             IN  SubSeq(s, lo, hi)

StripFences(content) == Trim(ReplaceFences(content))

(***************************************************************************)
(* JSON.parse                                                              *)
(***************************************************************************)
POk(v, i)  == [ok |-> TRUE, v |-> v, i |-> i]
PFail(i)   == [ok |-> FALSE, v |-> JNull, i |-> i]

\* First index >= i that is past the end or holds no white space.
SkipWs(s, i) ==
    LET js == {j \in i..(Len(s) + 1) : j = Len(s) + 1 \/ s[j] \notin WS}
    IN  CHOOSE j \in js : \A k \in js : j <= k

RECURSIVE Concat(_)
Concat(xs) == IF xs = <<>> THEN "" ELSE Head(xs) \o Concat(Tail(xs))

\* s[i] is the opening quote.
ParseString(s, i) ==
    LET qs == {j \in (i + 1)..Len(s) : s[j] = QT}
    IN  IF qs = {} THEN PFail(Len(s) + 1)
        ELSE LET j == CHOOSE q \in qs : \A k \in qs : q <= k
                 body == SubSeq(s, i + 1, j - 1)
                 bad == {k \in 1..Len(body) : body[k] = LF}
             IN  IF bad # {}
                 THEN PFail(i + (CHOOSE k \in bad : \A l \in bad : k <= l))
                 ELSE POk(JStr(Concat(body)), j + 1)

RECURSIVE ParseValue(_, _), ParseElems(_, _, _), ParseMembers(_, _, _)

ParseValue(s, i) ==
    LET j == SkipWs(s, i)
        c == At(s, j)
    IN  IF j > Len(s) THEN PFail(j)
        ELSE IF c = "{" THEN
            (IF At(s, SkipWs(s, j + 1)) = "}"
             THEN POk(JObj(<<>>), SkipWs(s, j + 1) + 1)
             ELSE ParseMembers(s, j + 1, <<>>))
        ELSE IF c = "[" THEN
            (IF At(s, SkipWs(s, j + 1)) = "]"
             THEN POk(JArr(<<>>), SkipWs(s, j + 1) + 1)
             ELSE ParseElems(s, j + 1, <<>>))
        ELSE IF c = QT THEN ParseString(s, j)
        ELSE IF c \in DOMAIN NumVal THEN POk(JNum(NumVal[c]), j + 1)
        ELSE IF c = "null" THEN POk(JNull, j + 1)
        ELSE IF c = "true" THEN POk(JBool("true"), j + 1)
        ELSE IF c = "false" THEN POk(JBool("false"), j + 1)
        ELSE PFail(j)

\* After '[' or ',': one value, then ',' or ']'.
ParseElems(s, i, acc) ==
    LET r == ParseValue(s, i)
    IN  IF ~r.ok THEN r
        ELSE LET k == SkipWs(s, r.i)
                 c == At(s, k)
             IN  IF c = "," THEN ParseElems(s, k + 1, Append(acc, r.v))
                 ELSE IF c = "]" THEN POk(JArr(Append(acc, r.v)), k + 1)
                 ELSE PFail(k)

\* After '{' or ',': "key" : value, then ',' or '}'.
ParseMembers(s, i, acc) ==
    LET j == SkipWs(s, i)
    IN  IF At(s, j) # QT THEN PFail(j)
        ELSE LET key == ParseString(s, j)
             IN  IF ~key.ok THEN key
                 ELSE LET c == SkipWs(s, key.i)
                      IN  IF At(s, c) # ":" THEN PFail(c)
                          ELSE LET r == ParseValue(s, c + 1)
                               IN  IF ~r.ok THEN r
                                   ELSE LET k == SkipWs(s, r.i)
                                            d == At(s, k)
                                            acc2 == Append(acc, Member(key.v.s, r.v))
                                        IN  IF d = "," THEN ParseMembers(s, k + 1, acc2)
                                            ELSE IF d = "}" THEN POk(JObj(acc2), k + 1)
                                            ELSE PFail(k)

\* JSON.parse(text): the value, or the SyntaxError it throws.
JSONparse(s) ==
    LET r == ParseValue(s, 1)
    IN  IF ~r.ok THEN r
        ELSE IF SkipWs(s, r.i) <= Len(s) THEN PFail(SkipWs(s, r.i))
        ELSE r

SyntaxErrorMessage(s, p) ==
    IF p.i > Len(s) THEN "Unexpected end of JSON input"
    ELSE "Unexpected token in JSON"

(***************************************************************************)
(* zod: RecipeSchema and RecipeResponseSchema                              *)
(***************************************************************************)
DIFFICULTIES == {"EASY", "MEDIUM", "HARD"}

ZString(v) == v.t = "str"
ZObject(v) == v.t = "obj"
ZNumberMin(v, m) == v.t = "num" /\ v.n >= m
ZArray(v, Elem(_)) == v.t = "arr" /\ \A i \in 1..Len(v.a) : Elem(v.a[i])
\* a required key of z.object
ZField(v, key, Schema(_)) == HasKey(v, key) /\ Schema(Get(v, key))
\* key: schema.optional()
ZOptional(v, key, Schema(_)) == HasKey(v, key) => Schema(Get(v, key))

ZMin0(v) == ZNumberMin(v, 0)
ZMin1(v) == ZNumberMin(v, 1)
ZDifficulty(v) == v.t = "str" /\ v.s \in DIFFICULTIES
ZStringArray(v) == ZArray(v, ZString)

RecipeIngredientSchema(v) ==
    /\ ZObject(v)
    /\ ZField(v, "item", ZString)
    /\ ZField(v, "amount", ZString)

NutritionalInfoSchema(v) ==
    /\ ZObject(v)
    /\ ZField(v, "calories", ZMin0)
    /\ ZField(v, "protein", ZMin0)
    /\ ZField(v, "carbs", ZMin0)
    /\ ZField(v, "fat", ZMin0)

RecipeIngredientsSchema(v) == ZArray(v, RecipeIngredientSchema)

RecipeSchema(v) ==
    /\ ZObject(v)
    /\ ZField(v, "title", ZString)
    /\ ZField(v, "cookingTime", ZMin1)
    /\ ZField(v, "difficulty", ZDifficulty)
    /\ ZField(v, "ingredients", RecipeIngredientsSchema)
    /\ ZField(v, "instructions", ZStringArray)
    /\ ZField(v, "nutritionalInfo", NutritionalInfoSchema)

DetectedIngredientSchema(v) ==
    /\ ZObject(v)
    /\ ZField(v, "name", ZString)
    /\ ZField(v, "category", ZString)
    /\ ZOptional(v, "quantity", ZString)

DetectedIngredientsSchema(v) == ZArray(v, DetectedIngredientSchema)
SuggestedRecipesSchema(v) == ZArray(v, RecipeSchema)

RecipeResponseSchema(v) ==
    /\ ZObject(v)
    /\ ZField(v, "detectedIngredients", DetectedIngredientsSchema)
    /\ ZField(v, "suggestedRecipes", SuggestedRecipesSchema)

\* parsed.data: z.object keeps the keys of its shape, in the shape's order, and
\* drops every other key.
Pick(v, keys) ==
    LET have == SelectSeq(keys, LAMBDA k : HasKey(v, k))
    IN  [i \in 1..Len(have) |-> Member(have[i], Get(v, have[i]))]

ZMap(v, F(_)) == JArr([i \in 1..Len(v.a) |-> F(v.a[i])])

RecipeIngredientData(v) == JObj(Pick(v, <<"item", "amount">>))
NutritionalInfoData(v) == JObj(Pick(v, <<"calories", "protein", "carbs", "fat">>))
DetectedIngredientData(v) == JObj(Pick(v, <<"name", "category", "quantity">>))

RecipeData(v) ==
    JObj(<<Member("title", Get(v, "title")),
           Member("cookingTime", Get(v, "cookingTime")),
           Member("difficulty", Get(v, "difficulty")),
           Member("ingredients", ZMap(Get(v, "ingredients"), RecipeIngredientData)),
           Member("instructions", Get(v, "instructions")),
           Member("nutritionalInfo", NutritionalInfoData(Get(v, "nutritionalInfo")))>>)

RecipeResponseData(v) ==
    JObj(<<Member("detectedIngredients",
                  ZMap(Get(v, "detectedIngredients"), DetectedIngredientData)),
           Member("suggestedRecipes", ZMap(Get(v, "suggestedRecipes"), RecipeData))>>)

(***************************************************************************)
(* ai.server: what a function returns or throws                            *)
(***************************************************************************)
Return(v)        == [kind |-> "return", name |-> "", message |-> "", data |-> v]
Throw(name, msg) == [kind |-> "throw", name |-> name, message |-> msg, data |-> JNull]

NO_INGREDIENTS_FOUND == "NO_INGREDIENTS_FOUND"
NoIngredientsMessage ==
    "No ingredients were detected in the image. Please try again with a clearer photo of food items"
FailedToGenerate == "Failed to generate recipes"

\* What openai.chat.completions.create settles with: a rejection, or a
\* completion whose first choice may carry no content.
ApiError(msg) ==
    [ok |-> FALSE, hasContent |-> FALSE, error |-> msg, text |-> "", atoms |-> <<>>]
NoContent ==
    [ok |-> TRUE, hasContent |-> FALSE, error |-> "", text |-> "", atoms |-> <<>>]
DetectorSays(txt) ==
    [ok |-> TRUE, hasContent |-> TRUE, error |-> "", text |-> txt, atoms |-> <<>>]
GeneratorSays(as) ==
    [ok |-> TRUE, hasContent |-> TRUE, error |-> "", text |-> "", atoms |-> as]

\* completion.choices[0]?.message.content ?? ''
DetectorContent(c) == IF c.hasContent THEN c.text ELSE ""
GeneratorContent(c) == IF c.hasContent THEN c.atoms ELSE <<>>

\* analyzeFridgeContents without the comparison with the sentinel
analyzeFridgeContentsNoSentinel(c) ==
    IF ~c.ok THEN Throw("APIError", c.error)
    ELSE Return(JStr(DetectorContent(c)))

analyzeFridgeContents(c) ==
    IF ~c.ok THEN Throw("APIError", c.error)
    ELSE LET content == DetectorContent(c)
         IN  IF content = NO_INGREDIENTS_FOUND THEN Return(JNull)
             ELSE Return(JStr(content))

\* !ingredients
Falsy(v) ==
    \/ v.t = "null"
    \/ v.t = "str" /\ v.s = ""
    \/ v.t = "num" /\ v.n = 0
    \/ v.t = "bool" /\ v.s = "false"

\* analyzeImage testing ingredients === null instead of !ingredients
analyzeImageNullOnly(c) ==
    LET ingredients == analyzeFridgeContents(c)
    IN  IF ingredients.kind = "throw" THEN ingredients
        ELSE IF ingredients.data.t = "null" THEN Throw("Error", NoIngredientsMessage)
        ELSE ingredients

analyzeImage(c) ==
    LET ingredients == analyzeFridgeContents(c)
    IN  IF ingredients.kind = "throw" THEN ingredients
        ELSE IF Falsy(ingredients.data) THEN Throw("Error", NoIngredientsMessage)
        ELSE ingredients

generateRecipes(c) ==
    IF ~c.ok THEN Throw("APIError", c.error)
    ELSE LET str == StripFences(GeneratorContent(c))
             json == JSONparse(str)
         IN  IF ~json.ok THEN Throw("SyntaxError", SyntaxErrorMessage(str, json))
             ELSE IF ~RecipeResponseSchema(json.v)
                  THEN Throw("Error", FailedToGenerate)
                  ELSE Return(RecipeResponseData(json.v))

generateRecipesFromIngredients(c) == generateRecipes(c)

(***************************************************************************)
(* Response texts of the completion service: the JSON document the system  *)
(* prompt asks for, with the deviations a service can make.                *)
(***************************************************************************)
Str(x) == <<QT, x, QT>>
StrOf(as) == <<QT>> \o as \o <<QT>>
KV(k, v) == <<QT, k, QT, ":">> \o v

RECURSIVE Join(_)
Join(parts) ==
    IF parts = <<>> THEN <<>>
    ELSE IF Len(parts) = 1 THEN parts[1]
    ELSE parts[1] \o <<",">> \o Join(Tail(parts))

ObjText(members) == <<"{">> \o Join(members) \o <<"}">>
ArrText(elems) == <<"[">> \o Join(elems) \o <<"]">>

NutritionText(cal) ==
    ObjText(<<KV("calories", <<cal>>), KV("protein", <<"15">>),
              KV("carbs", <<"15">>), KV("fat", <<"1">>)>>)

\* One recipe: title and difficulty are lexeme sequences, time and cal are
\* number lexemes, nutri says whether nutritionalInfo is present.
RecipeText(v) ==
    ObjText(<<KV("title", StrOf(v.title)),
              KV("cookingTime", <<v.time>>),
              KV("difficulty", StrOf(v.diff)),
              KV("ingredients",
                 ArrText(<<ObjText(<<KV("item", Str("eggs")), KV("amount", Str("2"))>>)>>)),
              KV("instructions", ArrText(<<StrOf(<<"Mix", SP, "and", SP, "fry">>)>>))>>
            \o (IF v.nutri THEN <<KV("nutritionalInfo", NutritionText(v.cal))>>
                ELSE <<>>))

ResponseText(recipeTexts) ==
    ObjText(<<KV("detectedIngredients",
                 ArrText(<<ObjText(<<KV("name", Str("eggs")),
                                     KV("category", Str("dairy"))>>)>>)),
              KV("suggestedRecipes", ArrText(recipeTexts))>>)

Titles == {<<"Pancakes">>, <<BT, BT, BT, "json", "Pancakes">>}
Times == {"15", "0"}
Diffs == {<<"EASY">>, <<"IMPOSSIBLE">>, <<"EA", BT, BT, BT, "SY">>}
Cals == {"0", "-1"}

RecipeVariants ==
    [title : Titles, time : Times, diff : Diffs, cal : Cals, nutri : BOOLEAN]

Pancakes ==
    [title |-> <<"Pancakes">>, time |-> "15", diff |-> <<"EASY">>, cal |-> "0",
     nutri |-> TRUE]

\* Documents that are JSON but no recipe response, and texts that are no JSON.
OtherJsonTexts ==
    { <<"{", "}">>, <<"[", "]">>, <<"null">>,
      ResponseText(<<>>),
      ObjText(<<KV("suggestedRecipes", ArrText(<<>>))>>),
      ObjText(<<KV("detectedIngredients", ArrText(<<>>)),
                KV("suggestedRecipes", ArrText(<<>>)),
                KV("note", Str("enjoy"))>>),
      ObjText(<<KV("detectedIngredients",
                   ArrText(<<ObjText(<<KV("name", Str("eggs")),
                                       KV("category", Str("dairy")),
                                       KV("quantity", <<"1">>)>>)>>)),
                KV("suggestedRecipes", ArrText(<<>>))>>) }

NonJsonTexts ==
    { <<>>, <<"Sorry">>,
      <<"{", QT, "detectedIngredients", QT, ":", "[">>,
      <<"[", "1", ",", "]">>,
      <<"{", "}", "{", "}">> }

Payloads ==
    {ResponseText(<<RecipeText(v)>>) : v \in RecipeVariants}
        \cup OtherJsonTexts \cup NonJsonTexts

Wraps == {"none", "json_fence", "json_fence_tight", "plain_fence", "padded",
          "newline_json_fence"}

Wrap(w, j) ==
    CASE w = "none" -> j
      [] w = "json_fence" -> Fence3 \o <<"json", LF>> \o j \o <<LF>> \o Fence3
      [] w = "json_fence_tight" -> Fence3 \o <<"json">> \o j \o Fence3
      [] w = "plain_fence" -> Fence3 \o <<LF>> \o j \o <<LF>> \o Fence3
      [] w = "padded" -> <<SP>> \o j \o <<LF>>
      [] w = "newline_json_fence" ->
            <<LF>> \o Fence3 \o <<"json", LF>> \o j \o <<LF>> \o Fence3

(***************************************************************************)
(* SpecGen: generateRecipes applied to one completion                      *)
(***************************************************************************)
NoGen ==
    /\ payload = <<>>
    /\ wrap = "none"
    /\ completion = NoContent
    /\ jsonString = <<>>
    /\ genOutcome = Return(JNull)
    /\ genPc = "off"

InitGen ==
    /\ payload \in Payloads
    /\ wrap \in Wraps
    /\ \/ completion = GeneratorSays(Wrap(wrap, payload))
       \/ payload = <<>> /\ wrap = "none"
              /\ completion \in {NoContent, ApiError("Connection error.")}
    /\ jsonString = <<>>
    /\ genOutcome = Return(JNull)
    /\ genPc = "start"

GenerateRecipes ==
    /\ genPc = "start"
    /\ jsonString' = IF completion.ok THEN StripFences(GeneratorContent(completion))
                     ELSE <<>>
    /\ genOutcome' = generateRecipes(completion)
    /\ genPc' = "done"
    /\ UNCHANGED <<payload, wrap, completion, uiVars, dbVars>>

(***************************************************************************)
(* FridgeImageInput: handleSubmit, and the two resource routes it calls    *)
(***************************************************************************)
MaxRuns == 2
Runs == 1..MaxRuns

NoImage == [present |-> FALSE, url |-> ""]
Image(u) == [present |-> TRUE, url |-> u]
DataUrl == "data:image/jpeg;base64,AAAA"
NoError == [present |-> FALSE, message |-> ""]
ErrorText(m) == [present |-> TRUE, message |-> m]

\* What a fetch settles with: a rejection, or a response with its ok flag and
\* its body (json: whether the body is a JSON document, body: that document).
NoResp == [st |-> "none", ok |-> FALSE, json |-> FALSE, body |-> JNull]
Rejected == [st |-> "rejected", ok |-> FALSE, json |-> FALSE, body |-> JNull]
Resp(ok, body) == [st |-> "arrived", ok |-> ok, json |-> TRUE, body |-> body]
RespNotJson(ok) == [st |-> "arrived", ok |-> ok, json |-> FALSE, body |-> JNull]

FailedToAnalyze == "Failed to analyze image"
InvalidResponseFormat == "Invalid response format"
InvalidRecipesFormat == "Invalid recipes response format"
FailedToFetch == "Failed to fetch"
NullProperty == "Cannot read properties of null"

DetectorCompletions ==
    { DetectorSays(NO_INGREDIENTS_FOUND),
      DetectorSays(""),
      DetectorSays("eggs, milk, flour"),
      NoContent,
      ApiError("Connection error.") }

GeneratorCompletions ==
    { GeneratorSays(Wrap("json_fence", ResponseText(<<RecipeText(Pancakes)>>))),
      GeneratorSays(ResponseText(<<RecipeText([Pancakes EXCEPT !.time = "0"])>>)),
      GeneratorSays(<<"Sorry">>),
      ApiError("Connection error.") }

\* Answers that do not come from the route's own code: the connection fails,
\* or something between the browser and the route answers in its place.
ForeignAnswers ==
    { Rejected,
      RespNotJson(FALSE),
      Resp(FALSE, JObj(<<>>)),
      Resp(FALSE, JNull),
      Resp(TRUE, JObj(<<>>)) }

InitRun ==
    [pc |-> "idle",
     served |-> FALSE, detCompletion |-> NoContent,
     fridge |-> Return(JNull), analyzeOutcome |-> Return(JNull),
     analyzeResp |-> NoResp, recipesResp |-> NoResp,
     analyzePending |-> FALSE, generatePending |-> FALSE,
     nAnalyze |-> 0, nGenerate |-> 0,
     ingredients |-> "",
     calls |-> <<>>, errorArg |-> "", completeArg |-> JNull]

InitUI ==
    /\ imageData = NoImage
    /\ navState = "idle"
    /\ submitError = NoError
    /\ run = [r \in Runs |-> InitRun]

\* capture(): webcamRef.current?.getScreenshot() ?? null
capture ==
    /\ \E shot \in {NoImage, Image(DataUrl)} : imageData' = shot
    /\ UNCHANGED <<navState, submitError, run, genVars, dbVars>>

\* handleFileChange(): reader.onloadend sets the data URL of the chosen file
handleFileChange ==
    /\ ~imageData.present
    /\ imageData' = Image(DataUrl)
    /\ UNCHANGED <<navState, submitError, run, genVars, dbVars>>

reset ==
    /\ imageData.present
    /\ imageData' = NoImage
    /\ UNCHANGED <<navState, submitError, run, genVars, dbVars>>

\* navigation.state follows the router's navigations and form submissions;
\* nothing in FridgeImageInput starts one (handleSubmit prevents the form's).
\* The states other than "submitting" read the same to this component and are
\* kept as "idle".
Navigation ==
    /\ navState' = IF navState = "idle" THEN "submitting" ELSE "idle"
    /\ UNCHANGED <<imageData, submitError, run, genVars, dbVars>>

isSubmitting == navState = "submitting"

\* The shape test without its 'ingredients' conjuncts
ValidAnalyzeDataAnyObject(data) == data.t \in {"obj", "arr"}

\* data: truthy, typeof 'object', 'ingredients' in data, typeof string

ValidAnalyzeData(data) ==
    /\ ~Falsy(data)
    /\ data.t \in {"obj", "arr"}
    /\ HasKey(data, "ingredients")
    /\ Get(data, "ingredients").t = "str"

ValidRecipesData(data) ==
    /\ ~Falsy(data)
    /\ data.t \in {"obj", "arr"}
    /\ HasKey(data, "detectedIngredients")
    /\ HasKey(data, "suggestedRecipes")
    /\ Get(data, "detectedIngredients").t = "arr"
    /\ Get(data, "suggestedRecipes").t = "arr"

\* body[key] || fallback, for a body that response.json() produced; reading a
\* property of null throws a TypeError.
MessageOr(body, key, fallback) ==
    IF body.t = "null" THEN Throw("TypeError", NullProperty)
    ELSE IF HasKey(body, key) /\ ~Falsy(Get(body, key))
         THEN Throw("Error", Get(body, key).s)
         ELSE Throw("Error", fallback)

\* await response.json()
ResponseJson(resp) ==
    IF resp.json THEN Return(resp.body)
    ELSE Throw("SyntaxError", "Unexpected token in JSON")

\* A catch block that only logs
CatchSilently(rr, err) ==
    [rr EXCEPT !.pc = "done", !.analyzePending = FALSE, !.generatePending = FALSE]

\* The catch block: setSubmitError(message); onError?.(message)

Catch(rr, err) ==
    [rr EXCEPT !.pc = "done",
               !.analyzePending = FALSE, !.generatePending = FALSE,
               !.calls = Append(@, "onError"),
               !.errorArg = err.message]

\* What the try block throws once the first fetch has settled, or Return(data).
AnalyzeStep(resp) ==
    IF resp.st = "rejected" THEN Throw("TypeError", FailedToFetch)
    ELSE LET body == ResponseJson(resp)
         IN  IF body.kind = "throw" THEN body
             ELSE IF ~resp.ok THEN MessageOr(body.data, "message", FailedToAnalyze)
             ELSE IF ~ValidAnalyzeData(body.data)
                  THEN Throw("Error", InvalidResponseFormat)
                  ELSE body

\* The same for the second fetch: recipes is read before ok is tested.
GenerateStep(resp) ==
    IF resp.st = "rejected" THEN Throw("TypeError", FailedToFetch)
    ELSE LET body == ResponseJson(resp)
         IN  IF body.kind = "throw" THEN body
             ELSE IF ~resp.ok THEN MessageOr(body.data, "error", FailedToGenerate)
             ELSE IF ~ValidRecipesData(body.data)
                  THEN Throw("Error", InvalidRecipesFormat)
                  ELSE body

\* handleSubmit up to its first await
Submit(r) ==
    /\ run[r].pc = "idle"
    /\ \A q \in Runs : q < r => run[q].pc # "idle"
    /\ imageData.present          \* the form is rendered only with an image
    /\ ~isSubmitting              \* <Button type="submit" disabled={isSubmitting}>
    /\ submitError' = NoError
    /\ run' = [run EXCEPT ![r] =
                  IF ~imageData.present
                  THEN [@ EXCEPT !.pc = "done", !.calls = Append(@, "onAnalyzeStart")]
                  ELSE [@ EXCEPT !.pc = "awaitAnalyze",
                                 !.calls = Append(@, "onAnalyzeStart"),
                                 !.analyzePending = TRUE,
                                 !.nAnalyze = @ + 1]]
    /\ UNCHANGED <<imageData, navState, genVars, dbVars>>

\* handleSubmit from the first fetch's settlement to the second await or the end
AnalyzeResolved(r) ==
    /\ run[r].pc = "awaitAnalyze"
    /\ run[r].analyzeResp.st # "none"
    /\ LET step == AnalyzeStep(run[r].analyzeResp)
           rr == [run[r] EXCEPT !.analyzePending = FALSE]
       IN  IF step.kind = "throw"
           THEN /\ run' = [run EXCEPT ![r] = Catch(rr, step)]
                /\ submitError' = ErrorText(step.message)
           ELSE /\ run' = [run EXCEPT ![r] =
                              [rr EXCEPT !.pc = "awaitGenerate",
                                         !.ingredients = Prop(step.data, "ingredients").s,
                                         !.calls = Append(@, "onGeneratingRecipes"),
                                         !.generatePending = TRUE,
                                         !.nGenerate = @ + 1]]
                /\ submitError' = submitError
    /\ UNCHANGED <<imageData, navState, genVars, dbVars>>

\* handleSubmit from the second fetch's settlement to the end
GenerateResolved(r) ==
    /\ run[r].pc = "awaitGenerate"
    /\ run[r].recipesResp.st # "none"
    /\ LET step == GenerateStep(run[r].recipesResp)
           rr == [run[r] EXCEPT !.generatePending = FALSE]
       IN  IF step.kind = "throw"
           THEN /\ run' = [run EXCEPT ![r] = Catch(rr, step)]
                /\ submitError' = ErrorText(step.message)
           ELSE /\ run' = [run EXCEPT ![r] =
                              [rr EXCEPT !.pc = "done",
                                         !.calls = Append(@, "onAnalyzeComplete"),
                                         !.completeArg =
                                             JObj(Pick(step.data,
                                                       <<"detectedIngredients",
                                                         "suggestedRecipes">>))]]
                /\ submitError' = submitError
    /\ UNCHANGED <<imageData, navState, genVars, dbVars>>

(***************************************************************************)
(* The resource routes.  Their files are not among the sources; they are   *)
(* modelled from the caller-facing boundary the specification gives:       *)
(* submit image -> { ingredients } or an error object { message };         *)
(* submit ingredients -> the recipe response or an error object { error }. *)
(***************************************************************************)
AnalyzeRouteResponse(out) ==
    IF out.kind = "return"
    THEN Resp(TRUE, JObj(<<Member("ingredients", out.data)>>))
    ELSE Resp(FALSE, JObj(<<Member("message", JStr(out.message))>>))

GenerateRouteResponse(out) ==
    IF out.kind = "return"
    THEN Resp(TRUE, out.data)
    ELSE Resp(FALSE, JObj(<<Member("error", JStr(out.message))>>))

\* The action of /resources/analyze-image for each completion the Detector can
\* get: what analyzeFridgeContents and analyzeImage yield and the response sent.
AnalyzeRouteCases ==
    { [completion |-> c,
       fridge |-> analyzeFridgeContents(c),
       outcome |-> analyzeImage(c),
       response |-> AnalyzeRouteResponse(analyzeImage(c))] : c \in DetectorCompletions }

\* The action of /resources/generate-recipes for each completion the Generator
\* can get.
GenerateRouteCases ==
    { GenerateRouteResponse(generateRecipesFromIngredients(c)) :
          c \in GeneratorCompletions }

\* /resources/analyze-image handles the request of run r
AnalyzeRoute(r) ==
    /\ run[r].pc = "awaitAnalyze"
    /\ run[r].analyzeResp.st = "none"
    /\ \E case \in AnalyzeRouteCases :
          run' = [run EXCEPT ![r] =
                     [@ EXCEPT !.served = TRUE,
                               !.detCompletion = case.completion,
                               !.fridge = case.fridge,
                               !.analyzeOutcome = case.outcome,
                               !.analyzeResp = case.response]]
    /\ UNCHANGED <<imageData, navState, submitError, genVars, dbVars>>

\* /resources/generate-recipes handles the request of run r
GenerateRoute(r) ==
    /\ run[r].pc = "awaitGenerate"
    /\ run[r].recipesResp.st = "none"
    /\ \E response \in GenerateRouteCases :
          run' = [run EXCEPT ![r] = [@ EXCEPT !.recipesResp = response]]
    /\ UNCHANGED <<imageData, navState, submitError, genVars, dbVars>>

\* A fetch of run r settles without the route's answer.
ForeignAnswer(r) ==
    /\ \E a \in ForeignAnswers :
          \/ /\ run[r].pc = "awaitAnalyze"
             /\ run[r].analyzeResp.st = "none"
             /\ run' = [run EXCEPT ![r] = [@ EXCEPT !.analyzeResp = a]]
          \/ /\ run[r].pc = "awaitGenerate"
             /\ run[r].recipesResp.st = "none"
             /\ run' = [run EXCEPT ![r] = [@ EXCEPT !.recipesResp = a]]
    /\ UNCHANGED <<imageData, navState, submitError, genVars, dbVars>>

(***************************************************************************)
(* schema.prisma: User, Scan, ScanImage, Recipe, RecipeIngredient and      *)
(* RecipeImage with their referential actions.  A row keeps its key        *)
(* columns only; there is one account, which owns every row.               *)
(***************************************************************************)
MaxScans == 1
MaxRecipes == 2
MaxIngredients == 2

UserIds == {1}
ScanIds == 1..MaxScans
ScanImageIds == 1..MaxScans
RecipeIds == 1..MaxRecipes
IngredientIds == 1..MaxIngredients
NULL == 0

Ids(rows) == {row.id : row \in rows}

\* The last operation: its kind and, for a delete, whether it found the rows
\* its referential actions are about (for a Recipe: ingredients, an image and
\* a Scan it referenced; for a Scan or a User: dependent rows).
Op(kind, found) == [op |-> kind, cascaded |-> found]

InitDB ==
    /\ users = {}
    /\ scans = {}
    /\ scanImages = {}
    /\ recipes = {}
    /\ recipeIngredients = {}
    /\ recipeImages = {}
    /\ lastOp = Op("none", FALSE)

\* onDelete: Cascade -- the child rows whose parent is among ids go with it
Cascade(rows, col, ids) == {row \in rows : row[col] \notin ids}

\* Recipe.scan declared onDelete: Cascade instead
SetNullAsCascade(rows, ids) == {row \in rows : row.scanId \notin ids}

\* Recipe.scan: onDelete: SetNull
SetNull(rows, ids) ==
    {[row EXCEPT !.scanId = IF @ \in ids THEN NULL ELSE @] : row \in rows}

Dependents(rows, col, ids) == {row \in rows : row[col] \in ids}

CreateUser(u) ==
    /\ u \notin users
    /\ users' = users \cup {u}
    /\ lastOp' = Op("create", FALSE)
    /\ UNCHANGED <<scans, scanImages, recipes, recipeIngredients, recipeImages,
                   genVars, uiVars>>

CreateScan(s, u) ==
    /\ s \notin Ids(scans)
    /\ u \in users
    /\ scans' = scans \cup {[id |-> s, userId |-> u]}
    /\ lastOp' = Op("create", FALSE)
    /\ UNCHANGED <<users, scanImages, recipes, recipeIngredients, recipeImages,
                   genVars, uiVars>>

CreateScanImage(i, s) ==
    /\ i \notin Ids(scanImages)
    /\ s \in Ids(scans)
    /\ scanImages' = scanImages \cup {[id |-> i, scanId |-> s]}
    /\ lastOp' = Op("create", FALSE)
    /\ UNCHANGED <<users, scans, recipes, recipeIngredients, recipeImages,
                   genVars, uiVars>>

CreateRecipe(x, u, s) ==
    /\ x \notin Ids(recipes)
    /\ u \in users
    /\ s = NULL \/ s \in Ids(scans)
    /\ recipes' = recipes \cup {[id |-> x, userId |-> u, scanId |-> s]}
    /\ lastOp' = Op("create", FALSE)
    /\ UNCHANGED <<users, scans, scanImages, recipeIngredients, recipeImages,
                   genVars, uiVars>>

CreateRecipeIngredient(i, x) ==
    /\ i \notin Ids(recipeIngredients)
    /\ x \in Ids(recipes)
    /\ recipeIngredients' = recipeIngredients \cup {[id |-> i, recipeId |-> x]}
    /\ lastOp' = Op("create", FALSE)
    /\ UNCHANGED <<users, scans, scanImages, recipes, recipeImages, genVars, uiVars>>

\* recipeId is @unique: one image per recipe
CreateRecipeImage(x) ==
    /\ x \in Ids(recipes)
    /\ \A img \in recipeImages : img.recipeId # x
    /\ recipeImages' = recipeImages \cup {[recipeId |-> x]}
    /\ lastOp' = Op("create", FALSE)
    /\ UNCHANGED <<users, scans, scanImages, recipes, recipeIngredients,
                   genVars, uiVars>>

DeleteRecipe(x) ==
    /\ x \in Ids(recipes)
    /\ recipes' = {row \in recipes : row.id # x}
    /\ recipeIngredients' = Cascade(recipeIngredients, "recipeId", {x})
    /\ recipeImages' = Cascade(recipeImages, "recipeId", {x})
    /\ lastOp' = Op("deleteRecipe",
                    /\ Dependents(recipeIngredients, "recipeId", {x}) # {}
                    /\ Dependents(recipeImages, "recipeId", {x}) # {}
                    /\ \E row \in recipes : row.id = x /\ row.scanId # NULL)
    /\ UNCHANGED <<users, scans, scanImages, genVars, uiVars>>

DeleteScan(s) ==
    /\ s \in Ids(scans)
    /\ scans' = {row \in scans : row.id # s}
    /\ scanImages' = Cascade(scanImages, "scanId", {s})
    /\ recipes' = SetNull(recipes, {s})
    /\ lastOp' = Op("deleteScan", Dependents(recipes, "scanId", {s}) # {})
    /\ UNCHANGED <<users, recipeIngredients, recipeImages, genVars, uiVars>>

DeleteUser(u) ==
    /\ u \in users
    /\ LET goneScans == Ids(Dependents(scans, "userId", {u}))
           goneRecipes == Ids(Dependents(recipes, "userId", {u}))
       IN  /\ users' = users \ {u}
           /\ scans' = Cascade(scans, "userId", {u})
           /\ scanImages' = Cascade(scanImages, "scanId", goneScans)
           /\ recipes' = SetNull(Cascade(recipes, "userId", {u}), goneScans)
           /\ recipeIngredients' = Cascade(recipeIngredients, "recipeId", goneRecipes)
           /\ recipeImages' = Cascade(recipeImages, "recipeId", goneRecipes)
           /\ lastOp' = Op("deleteUser", goneScans \cup goneRecipes # {})
    /\ UNCHANGED <<genVars, uiVars>>

\* Deleting one row that nothing depends on
DeleteLeaf ==
    /\ \/ \E row \in scanImages :
             /\ scanImages' = scanImages \ {row}
             /\ UNCHANGED <<recipeIngredients, recipeImages>>
       \/ \E row \in recipeIngredients :
             /\ recipeIngredients' = recipeIngredients \ {row}
             /\ UNCHANGED <<scanImages, recipeImages>>
       \/ \E row \in recipeImages :
             /\ recipeImages' = recipeImages \ {row}
             /\ UNCHANGED <<scanImages, recipeIngredients>>
    /\ lastOp' = Op("deleteLeaf", FALSE)
    /\ UNCHANGED <<users, scans, recipes, genVars, uiVars>>

(***************************************************************************)
(* Specifications                                                          *)
(***************************************************************************)
Init == InitUI /\ NoGen /\ InitDB

Next ==
    \/ capture
    \/ handleFileChange
    \/ reset
    \/ Navigation
    \/ \E r \in Runs : Submit(r)
    \/ \E r \in Runs : AnalyzeRoute(r)
    \/ \E r \in Runs : AnalyzeResolved(r)
    \/ \E r \in Runs : GenerateRoute(r)
    \/ \E r \in Runs : GenerateResolved(r)
    \/ \E r \in Runs : ForeignAnswer(r)

Spec == Init /\ [][Next]_vars

SpecGenInit == InitGen /\ InitUI /\ InitDB
NextGen == GenerateRecipes
SpecGen == SpecGenInit /\ [][NextGen]_vars

SpecDBInit == InitDB /\ InitUI /\ NoGen
NextDB ==
    \/ \E u \in UserIds : CreateUser(u)
    \/ \E s \in ScanIds, u \in UserIds : CreateScan(s, u)
    \/ \E i \in ScanImageIds, s \in ScanIds : CreateScanImage(i, s)
    \/ \E x \in RecipeIds, u \in UserIds, s \in ScanIds \cup {NULL} : CreateRecipe(x, u, s)
    \/ \E i \in IngredientIds, x \in RecipeIds : CreateRecipeIngredient(i, x)
    \/ \E x \in RecipeIds : CreateRecipeImage(x)
    \/ \E x \in RecipeIds : DeleteRecipe(x)
    \/ \E s \in ScanIds : DeleteScan(s)
    \/ \E u \in UserIds : DeleteUser(u)
    \/ DeleteLeaf
SpecDB == SpecDBInit /\ [][NextDB]_vars

(***************************************************************************)
(* Properties of generateRecipes (checked under SpecGen)                   *)
(***************************************************************************)
GenDone == genPc = "done" /\ completion.ok /\ completion.hasContent

\* C2: every response text that parses as JSON but violates
\* RecipeResponseSchema makes generateRecipes throw Error('Failed to generate
\* recipes'); no object is returned.
C2_SchemaViolationFails ==
    GenDone =>
        LET text == JSONparse(GeneratorContent(completion))
        IN  text.ok /\ ~RecipeResponseSchema(text.v)
                => genOutcome = Throw("Error", FailedToGenerate)

\* C3: every response text that is not parseable JSON after fence stripping
\* (the empty text of a completion without content included) makes
\* generateRecipes throw the same Error('Failed to generate recipes') as a
\* schema violation does.
C3_ParseFailureUniformError ==
    genPc = "done" /\ completion.ok /\ ~JSONparse(jsonString).ok
        => genOutcome = Throw("Error", FailedToGenerate)

\* C6: fence stripping is a prefix/suffix trim: the ```json-fenced form of a
\* JSON text j strips to exactly j, and a JSON text without a leading or
\* trailing fence strips to itself, also when j holds fence markers inside
\* its string values.
C6_FenceStripIsPrefixSuffixTrim ==
    GenDone /\ JSONparse(payload).ok /\ wrap \in {"json_fence", "none"}
        => jsonString = payload

\* Where the stripping does what C6 says: a JSON text free of backticks, sent
\* bare, padded with white space, or between a leading and a trailing fence.
FenceStripOfBacktickFreeJson ==
    GenDone /\ JSONparse(payload).ok /\ wrap # "newline_json_fence"
            /\ (\A i \in 1..Len(payload) : payload[i] # BT)
        => jsonString = payload

\* The specification's example: a response matching the schema with one recipe
\* titled "Pancakes", cookingTime 15, difficulty "EASY" comes back with
\* suggestedRecipes[0].title = "Pancakes", however it was wrapped.
PancakesComeBack ==
    GenDone /\ payload = ResponseText(<<RecipeText(Pancakes)>>)
            /\ wrap # "newline_json_fence"
        => /\ genOutcome.kind = "return"
           /\ Get(Get(genOutcome.data, "suggestedRecipes").a[1], "title") = JStr("Pancakes")
           /\ Get(Get(genOutcome.data, "suggestedRecipes").a[1], "cookingTime") = JNum(15)

(***************************************************************************)
(* Properties of the pipeline (checked under Spec)                         *)
(***************************************************************************)
Count(calls, name) == Cardinality({i \in 1..Len(calls) : calls[i] = name})

GotSentinel(rr) == rr.served /\ rr.detCompletion = DetectorSays(NO_INGREDIENTS_FOUND)
GotEmpty(rr) ==
    rr.served /\ rr.detCompletion.ok
        /\ (~rr.detCompletion.hasContent \/ rr.detCompletion.text = "")
GotFailure(rr) == rr.served /\ ~rr.detCompletion.ok

\* C1: when the Detector's completion text is exactly NO_INGREDIENTS_FOUND,
\* analyzeFridgeContents returns null, analyzeImage throws the no-ingredients
\* error, and the run never issues a Generator request nor calls
\* onAnalyzeComplete; it ends in onError.
C1_SentinelNeverGenerates ==
    \A r \in Runs :
        GotSentinel(run[r]) =>
            /\ run[r].fridge = Return(JNull)
            /\ run[r].analyzeOutcome = Throw("Error", NoIngredientsMessage)
            /\ run[r].nGenerate = 0
            /\ Count(run[r].calls, "onAnalyzeComplete") = 0
            /\ run[r].pc = "done" => Count(run[r].calls, "onError") = 1

C1_Witness ==
    \E r \in Runs :
        /\ GotSentinel(run[r])
        /\ run[r].pc = "done"
        /\ run[r].errorArg = NoIngredientsMessage

HasStringIngredients(resp) ==
    /\ resp.st = "arrived" /\ resp.ok /\ resp.json
    /\ \E i \in 1..Len(resp.body.a) :
          resp.body.t = "obj" /\ resp.body.a[i].k = "ingredients"
              /\ resp.body.a[i].v.t = "str"

\* C4: a run issues at most one Detector request and at most one Generator
\* request; the Generator request is issued only after the Detector request
\* returned a success response carrying a string 'ingredients' (which it
\* sends on), and the two requests are never in flight together.
C4_OneRequestPerStageInOrder ==
    \A r \in Runs :
        /\ run[r].nAnalyze <= 1
        /\ run[r].nGenerate <= 1
        /\ ~(run[r].analyzePending /\ run[r].generatePending)
        /\ run[r].nGenerate = 1 =>
              /\ run[r].nAnalyze = 1
              /\ ~run[r].analyzePending
              /\ HasStringIngredients(run[r].analyzeResp)
              /\ JStr(run[r].ingredients) = Get(run[r].analyzeResp.body, "ingredients")

C4_Witness ==
    \E r \in Runs :
        /\ run[r].pc = "done"
        /\ run[r].nAnalyze = 1
        /\ run[r].nGenerate = 1
        /\ run[r].ingredients = "eggs, milk, flour"

AnalyzeFailed(rr) ==
    /\ rr.analyzeResp.st # "none"
    /\ ~HasStringIngredients(rr.analyzeResp)

GenerateFailed(rr) ==
    /\ rr.recipesResp.st # "none"
    /\ ~(/\ rr.recipesResp.st = "arrived" /\ rr.recipesResp.ok /\ rr.recipesResp.json
         /\ rr.recipesResp.body.t = "obj"
         /\ \E i, j \in 1..Len(rr.recipesResp.body.a) :
               /\ rr.recipesResp.body.a[i].k = "detectedIngredients"
               /\ rr.recipesResp.body.a[i].v.t = "arr"
               /\ rr.recipesResp.body.a[j].k = "suggestedRecipes"
               /\ rr.recipesResp.body.a[j].v.t = "arr")

\* C5: the first failure at either stage (failed fetch, non-success response,
\* wrongly shaped body) ends the run: no further request and no retry,
\* onAnalyzeComplete is not called, onError is called exactly once with a
\* message; every finished run has called exactly one of onAnalyzeComplete
\* and onError.
C5_FirstFailureAborts ==
    \A r \in Runs :
        /\ run[r].nAnalyze <= 1 /\ run[r].nGenerate <= 1
        /\ AnalyzeFailed(run[r]) => run[r].nGenerate = 0
        /\ run[r].pc = "done" =>
              /\ Count(run[r].calls, "onError")
                     + Count(run[r].calls, "onAnalyzeComplete") = 1
              /\ AnalyzeFailed(run[r]) \/ GenerateFailed(run[r]) =>
                    /\ Count(run[r].calls, "onError") = 1
                    /\ Count(run[r].calls, "onAnalyzeComplete") = 0
                    /\ run[r].errorArg # ""

C5_Witness ==
    \E r, q \in Runs :
        /\ run[r].pc = "done" /\ AnalyzeFailed(run[r])
        /\ run[q].pc = "done" /\ ~AnalyzeFailed(run[q]) /\ GenerateFailed(run[q])
        /\ Count(run[q].calls, "onError") = 1

\* C7 as claimed: analyzeImage yields pairwise distinguishable outcomes for
\* the Detector results 'sentinel text', 'empty text' and 'service call
\* failed'.
C7_ThreeDistinctOutcomes ==
    \A r, q \in Runs :
        \/ GotSentinel(run[r]) /\ GotEmpty(run[q])
        \/ GotSentinel(run[r]) /\ GotFailure(run[q])
        \/ GotEmpty(run[r]) /\ GotFailure(run[q])
        => run[r].analyzeOutcome # run[q].analyzeOutcome

\* C7 amended: analyzeFridgeContents tells the sentinel (null) from the empty
\* text (''), analyzeImage turns both into the same no-ingredients error, and
\* that error differs from the one a failed service call raises.
C7_SentinelAndEmptyShareOneOutcome ==
    \A r, q \in Runs :
        /\ GotSentinel(run[r]) /\ GotEmpty(run[q]) =>
              /\ run[r].fridge = Return(JNull)
              /\ run[q].fridge = Return(JStr(""))
              /\ run[r].analyzeOutcome = Throw("Error", NoIngredientsMessage)
              /\ run[q].analyzeOutcome = run[r].analyzeOutcome
              /\ run[q].analyzeResp = run[r].analyzeResp
        /\ (GotSentinel(run[r]) \/ GotEmpty(run[r])) /\ GotFailure(run[q]) =>
              /\ run[q].analyzeOutcome.kind = "throw"
              /\ run[q].analyzeOutcome.name # run[r].analyzeOutcome.name
              /\ run[q].analyzeOutcome.message # run[r].analyzeOutcome.message

C7_Witness ==
    \E r, q \in Runs :
        /\ GotSentinel(run[r]) /\ run[r].pc = "done"
        /\ GotEmpty(run[q]) /\ run[q].pc = "done"
        /\ run[r].errorArg = run[q].errorArg

\* The message of a non-success response: body[key] when it is a non-empty
\* string, else the fallback.
ServiceMessageOr(resp, key, fallback) ==
    IF resp.json /\ resp.body.t = "obj"
          /\ \E i \in 1..Len(resp.body.a) :
                resp.body.a[i].k = key /\ resp.body.a[i].v.t = "str"
                    /\ resp.body.a[i].v.s # ""
    THEN Get(resp.body, key).s
    ELSE fallback

\* C8: for every non-success response at either stage, onError gets the
\* body's message when present and non-empty and otherwise the stage's fixed
\* fallback, whatever the body is (field missing, empty, not JSON).
C8_NonSuccessMessageOrFallback ==
    \A r \in Runs :
        run[r].pc = "done" =>
            /\ run[r].analyzeResp.st = "arrived" /\ ~run[r].analyzeResp.ok =>
                  run[r].errorArg =
                      ServiceMessageOr(run[r].analyzeResp, "message", FailedToAnalyze)
            /\ run[r].recipesResp.st = "arrived" /\ ~run[r].recipesResp.ok =>
                  run[r].errorArg =
                      ServiceMessageOr(run[r].recipesResp, "error", FailedToGenerate)

\* C10: at most one handleSubmit run of the component is awaiting a response
\* at any time, so the callbacks of two runs never interleave.
C10_OneRunInFlight ==
    Cardinality({r \in Runs : run[r].pc \in {"awaitAnalyze", "awaitGenerate"}}) <= 1

(***************************************************************************)
(* Properties of the schema's referential actions (checked under SpecDB)   *)
(***************************************************************************)
ReferentialIntegrity ==
    /\ \A row \in scans : row.userId \in users
    /\ \A row \in scanImages : row.scanId \in Ids(scans)
    /\ \A row \in recipes :
          row.userId \in users /\ (row.scanId = NULL \/ row.scanId \in Ids(scans))
    /\ \A row \in recipeIngredients : row.recipeId \in Ids(recipes)
    /\ \A row \in recipeImages : row.recipeId \in Ids(recipes)

RecipeDeleteEffect ==
    \A x \in RecipeIds :
        lastOp'.op = "deleteRecipe" /\ x \in Ids(recipes) /\ x \notin Ids(recipes') =>
            /\ recipes' = {row \in recipes : row.id # x}
            /\ recipeIngredients' = {row \in recipeIngredients : row.recipeId # x}
            /\ recipeImages' = {row \in recipeImages : row.recipeId # x}
            /\ scans' = scans
            /\ scanImages' = scanImages

ScanDeleteEffect ==
    \A s \in ScanIds :
        lastOp'.op = "deleteScan" /\ s \in Ids(scans) /\ s \notin Ids(scans') =>
            /\ Ids(recipes') = Ids(recipes)
            /\ \A row \in recipes :
                  IF row.scanId = s
                  THEN [row EXCEPT !.scanId = NULL] \in recipes'
                  ELSE row \in recipes'
            /\ recipeIngredients' = recipeIngredients
            /\ recipeImages' = recipeImages

\* C9: deleting a Recipe deletes its RecipeIngredient rows and its RecipeImage
\* and leaves the Scan it referenced, that Scan's other recipes and its images
\* unchanged; deleting a Scan sets scanId to null on its Recipes and deletes
\* none of them; no row ever references a missing parent.
C9_RecipeAndScanDeletes ==
    /\ []ReferentialIntegrity
    /\ [][RecipeDeleteEffect /\ ScanDeleteEffect]_vars

C9_Witness ==
    /\ lastOp = Op("deleteRecipe", TRUE)
    /\ scans # {}
    /\ scanImages # {}
    /\ \E row \in recipes : row.scanId # NULL

====
